---- MODULE Spec2Model ----
(***************************************************************************)
(* Model of the OCX in-kernel enforcement engine:                          *)
(*   src/ebpf/interceptor.bpf.c       LSM send/connect enforcement, the    *)
(*                                    exec-capture kprobe and exit cleanup *)
(*   src/ebpf/identity_map_core.bpf.c fork/exec/exit identity propagation  *)
(* Every BPF program is one action.  The userspace control plane is the    *)
(* environment: it writes the verdict, trust, entitlement and identity     *)
(* maps and drains the event channels.                                     *)
(*                                                                         *)
(* A hash map is a function from process ids to a "pointer": <<>> is the   *)
(* NULL that bpf_map_lookup_elem returns for a missing key, <<v>> is an    *)
(* entry holding v.  A ring buffer is modelled by its fill level (the      *)
(* kernel side never reads a record back); the records one hook submits    *)
(* are kept in `last`, the outcome of the hook that ran in the last step.  *)
(***************************************************************************)
EXTENDS Integers, Sequences, FiniteSets, TLC

\* ------------------------------------------------------------------ bounds
\* capacity, in records, of the enforcement ring buffer `events`
EventsCap == 1
\* capacity, in records, of the ring buffer `escrow_events`
EscrowCap == 2
\* capacity, in records, of the perf buffer `identity_events`
IdentityEventsCap == 1
\* identity_stats[0] is a u64 counter; the model keeps it modulo StatWrap
StatWrap == 2

\* ids (a process id is the thread id of the group leader)
Pids == {1, 2, 3}
\* tasks: bpf_get_current_pid_tgid() is tgid << 32 | tid.  Process 1 has the
\* leader thread 1 and a second thread 3; process 2 is single-threaded.
Tasks == {[tgid |-> 1, tid |-> 1], [tgid |-> 1, tid |-> 3], [tgid |-> 2, tid |-> 2]}
\* the tasks whose socket actions, execs and exits the interceptor sees, and
\* the process ids whose interceptor entries the control plane writes
EnforceTasks == {t \in Tasks : t.tgid = 1}
EnforcePids == {t.tgid : t \in EnforceTasks}
\* trust scores the control plane writes (both sides of 30 and of 65)
TrustVals == {29, 30, 60, 64, 65}
\* payload sizes of sendmsg (both sides of 1024)
Sizes == {1024, 1025, 2048}
\* tenant ids the control plane fills in
Tenants == {7}
\* entitlement bitmasks the control plane grants
Entitlements == {5}
\* agent identifiers the control plane registers
AgentIds == {"agent-a", "agent-b"}
\* the trust scores and agent identifiers written while the lifecycle hooks
\* of both files are explored together
LifecycleTrust == {65}
LifecycleAgents == {"agent-a"}

\* --------------------------------------------------------------- constants
ACTION_ALLOW == 0
ACTION_BLOCK == 1
ACTION_HOLD == 2
CLASS_B == 1
EPERM == 1
EAGAIN == 11
DEFAULT_TRUST == 50
TRUST_FLOOR == 30
CLASS_B_TRUST == 65
CLASS_B_SIZE == 1024
REVERSIBILITY_CLASS_B == 5
EVENT_FORK == 0
EVENT_EXEC == 1
EVENT_EXIT == 2
EVENT_LOOKUP == 3

Verdicts == {ACTION_ALLOW, ACTION_BLOCK, ACTION_HOLD}

VARIABLES
    verdict_cache,      \* interceptor: pid -> <<>> | <<action>>
    trust_cache,        \* interceptor: pid -> <<>> | <<trust>>
    identity_cache,     \* interceptor: pid -> <<>> | <<[binary_hash, tenant_id]>>
    entitlement_cache,  \* interceptor: pid -> <<>> | <<bitmask>>
    pid_identity_map,   \* identity mapper: pid -> <<>> | <<identity_t>>
    identity_stats,     \* identity mapper: the one counter slot
    events,             \* fill level of the enforcement ring buffer
    escrow_events,      \* fill level of the escrow ring buffer
    identity_events,    \* fill level of the identity perf buffer
    last,               \* outcome of the hook that ran in the last step
    seeded,             \* history: pid holds the capture-seeded verdict, not yet written externally
    pend,               \* history: pid's Class B attempt awaiting / after resolution
    progress            \* map operations done by the handle_exit and the
                        \* capture_binary_hash now running statement by statement

vars == <<verdict_cache, trust_cache, identity_cache, entitlement_cache,
          pid_identity_map, identity_stats, events, escrow_events,
          identity_events, last, seeded, pend, progress>>

\* ------------------------------------------------------------ map helpers
NULL == <<>>

\* bpf_map_update_elem(map, key, value, BPF_ANY): an existing key is always
\* overwritten; a new key is refused when the map is at max_entries (`full`:
\* the entries of the many processes outside Pids fill it).
bpf_map_update_elem(map, key, value, full) ==
    IF map[key] = NULL /\ full THEN map ELSE [map EXCEPT ![key] = <<value>>]

\* bpf_map_delete_elem(map, key): a missing key is -ENOENT, which is ignored
bpf_map_delete_elem(map, key) == [map EXCEPT ![key] = NULL]

\* ------------------------------------------------------- 64-bit arithmetic
\* A u64 is four 16-bit limbs, most significant first.
Limb == 2^16
\* 0x0123456789ABCDEF
HASH_MULT == <<291, 17767, 35243, 52719>>
U64Zero == <<0, 0, 0, 0>>

\* (u64)pid * 0x123456789ABCDEF, truncated to 64 bits
binary_hash_of(pid) ==
    LET p3 == HASH_MULT[4] * pid
        p2 == HASH_MULT[3] * pid + (p3 \div Limb)
        p1 == HASH_MULT[2] * pid + (p2 \div Limb)
        p0 == HASH_MULT[1] * pid + (p1 \div Limb)
    IN  <<p0 % Limb, p1 % Limb, p2 % Limb, p3 % Limb>>


\* ------------------------------------------------------------ event records
\* struct socket_event, without the fields no hook fills in (addresses,
\* ports, protocol) and without the clock and cgroup readings
socket_event(pid, tid, tenant_id, bin_hash, action, trust, size, blocked) ==
    [pid |-> pid, tid |-> tid, tenant_id |-> tenant_id, binary_hash |-> bin_hash,
     action |-> action, trust_level |-> trust, data_size |-> size,
     blocked |-> blocked]

\* struct escrow_event as ocx_enforce_send fills it in
escrow_event(pid, tid, tenant_id, bin_hash, trust, entitlements, size) ==
    [pid |-> pid, tid |-> tid, tool_id_hash |-> 0, action_class |-> CLASS_B,
     tenant_id |-> tenant_id, binary_hash |-> bin_hash, trust_level |-> trust,
     reversibility_index |-> REVERSIBILITY_CLASS_B, required_entitlements |-> 0,
     present_entitlements |-> entitlements, entitlement_valid |-> 1,
     data_size |-> size, verdict |-> 0]

\* struct identity_event
identity_event(pid, parent_pid, event_type, agent_id) ==
    [pid |-> pid, parent_pid |-> parent_pid, event_type |-> event_type,
     agent_id |-> agent_id]

\* bpf_ringbuf_reserve + bpf_ringbuf_submit: the record is appended when a
\* slot is free and dropped otherwise
ringbuf_output(space, record) == IF space THEN <<record>> ELSE <<>>

\* --------------------------------------------------- enforcement decisions
\* trust_level ? *trust_level : 50
trust_of(trust_level) == IF trust_level # NULL THEN trust_level[1] ELSE DEFAULT_TRUST

\* mutant: the Class B test made against the trust floor instead of 65
is_class_b_floor(trust, size) == trust < TRUST_FLOOR /\ size > CLASS_B_SIZE

\* is_class_b = (trust < 65 && size > 1024)
is_class_b(trust, size) == trust < CLASS_B_TRUST /\ size > CLASS_B_SIZE

\* ocx_enforce_send with one of three slips, for the mutants below:
\*   hold_audits  the Hold branch submits an audit record
\*   fail_open    the Class B branch admits the send when its reservation fails
\*   dedupe       the Class B branch skips the record of a retried attempt
enforce_send_variant(task, size, ev_space, esc_space, hold_audits, fail_open, dedupe) ==
    LET pid == task.tgid
        tid == task.tid
        verdict == verdict_cache[pid]
        trust == trust_of(trust_cache[pid])
        entitlements == IF entitlement_cache[pid] # NULL
                        THEN entitlement_cache[pid][1] ELSE 0
        ident == identity_cache[pid]
        tenant_id == IF ident # NULL THEN ident[1].tenant_id ELSE 0
        bin_hash == IF ident # NULL THEN ident[1].binary_hash ELSE U64Zero
        retried == pend[pid] # NULL /\ pend[pid][1].size = size
    IN  IF verdict # NULL /\ verdict[1] = ACTION_BLOCK
        THEN [ret |-> 0 - EPERM,
              ev |-> ringbuf_output(ev_space,
                        socket_event(pid, tid, tenant_id, bin_hash, ACTION_BLOCK,
                                     trust, size, 1)),
              esc |-> <<>>]
        ELSE IF verdict # NULL /\ verdict[1] = ACTION_HOLD
        THEN [ret |-> 0 - EAGAIN,
              ev |-> IF hold_audits
                     THEN ringbuf_output(ev_space,
                             socket_event(pid, tid, tenant_id, bin_hash, ACTION_HOLD,
                                          trust, size, 1))
                     ELSE <<>>,
              esc |-> <<>>]
        ELSE IF trust < CLASS_B_TRUST /\ size > CLASS_B_SIZE
        THEN [ret |-> IF fail_open /\ ~ esc_space THEN 0 ELSE 0 - EAGAIN,
              ev |-> <<>>,
              esc |-> IF dedupe /\ retried THEN <<>>
                      ELSE ringbuf_output(esc_space,
                              escrow_event(pid, tid, tenant_id, bin_hash, trust,
                                           entitlements, size))]
        ELSE IF trust < TRUST_FLOOR
        THEN [ret |-> 0 - EPERM, ev |-> <<>>, esc |-> <<>>]
        ELSE [ret |-> 0,
              ev |-> ringbuf_output(ev_space,
                        socket_event(pid, tid, tenant_id, bin_hash, ACTION_ALLOW,
                                     trust, size, 0)),
              esc |-> <<>>]

\* mutant: a send under Hold is audited on the enforcement channel
ocx_enforce_send_hold_audits(task, size, ev_space, esc_space) ==
    enforce_send_variant(task, size, ev_space, esc_space, TRUE, FALSE, FALSE)

\* mutant: a Class B send is admitted when the escrow channel is full
ocx_enforce_send_fail_open(task, size, ev_space, esc_space) ==
    enforce_send_variant(task, size, ev_space, esc_space, FALSE, TRUE, FALSE)

\* mutant: the retry of a pending Class B attempt emits no second record
ocx_enforce_send_dedupe(task, size, ev_space, esc_space) ==
    enforce_send_variant(task, size, ev_space, esc_space, FALSE, FALSE, TRUE)

\* ocx_enforce_send: the value returned and the records submitted, given the
\* maps and whether the two ring buffers have a free slot
ocx_enforce_send(task, size, ev_space, esc_space) ==
    LET pid == task.tgid
        tid == task.tid
        verdict == verdict_cache[pid]
        trust == trust_of(trust_cache[pid])
        agent_entitlements == entitlement_cache[pid]
        entitlements == IF agent_entitlements # NULL THEN agent_entitlements[1] ELSE 0
        ident == identity_cache[pid]
        tenant_id == IF ident # NULL THEN ident[1].tenant_id ELSE 0
        bin_hash == IF ident # NULL THEN ident[1].binary_hash ELSE U64Zero
    IN  IF verdict # NULL /\ verdict[1] = ACTION_BLOCK
        THEN [ret |-> 0 - EPERM,
              ev |-> ringbuf_output(ev_space,
                        socket_event(pid, tid, tenant_id, bin_hash, ACTION_BLOCK,
                                     trust, size, 1)),
              esc |-> <<>>]
        ELSE IF verdict # NULL /\ verdict[1] = ACTION_HOLD
        THEN [ret |-> 0 - EAGAIN, ev |-> <<>>, esc |-> <<>>]
        ELSE IF is_class_b(trust, size)
        THEN [ret |-> 0 - EAGAIN, ev |-> <<>>,
              esc |-> ringbuf_output(esc_space,
                        escrow_event(pid, tid, tenant_id, bin_hash, trust,
                                     entitlements, size))]
        ELSE IF trust < TRUST_FLOOR
        THEN [ret |-> 0 - EPERM, ev |-> <<>>, esc |-> <<>>]
        ELSE [ret |-> 0,
              ev |-> ringbuf_output(ev_space,
                        socket_event(pid, tid, tenant_id, bin_hash, ACTION_ALLOW,
                                     trust, size, 0)),
              esc |-> <<>>]

\* mutant: connect without the Block test
ocx_enforce_connect_no_block(task) ==
    IF trust_of(trust_cache[task.tgid]) < TRUST_FLOOR THEN 0 - EPERM ELSE 0

\* mutant: an explicit Allow admits the connect before the trust floor
ocx_enforce_connect_allow_first(task) ==
    LET verdict == verdict_cache[task.tgid]
    IN  IF verdict # NULL /\ verdict[1] = ACTION_BLOCK THEN 0 - EPERM
        ELSE IF verdict # NULL /\ verdict[1] = ACTION_ALLOW THEN 0
        ELSE IF trust_of(trust_cache[task.tgid]) < TRUST_FLOOR THEN 0 - EPERM
        ELSE 0

\* mutant: the trust floor of connect tested with <=
ocx_enforce_connect_floor_le(task) ==
    LET verdict == verdict_cache[task.tgid]
    IN  IF verdict # NULL /\ verdict[1] = ACTION_BLOCK THEN 0 - EPERM
        ELSE IF trust_of(trust_cache[task.tgid]) <= TRUST_FLOOR THEN 0 - EPERM
        ELSE 0

\* ocx_enforce_connect: the value returned; it submits no record
ocx_enforce_connect(task) ==
    LET pid == task.tgid
        verdict == verdict_cache[pid]
        trust == trust_of(trust_cache[pid])
    IN  IF verdict # NULL /\ verdict[1] = ACTION_BLOCK THEN 0 - EPERM
        ELSE IF trust < TRUST_FLOOR THEN 0 - EPERM
        ELSE 0


\* ------------------------------------------------------------------- state
NoCall ==
    [hook |-> "none", pid |-> 0, tid |-> 0, arg |-> 0, ret |-> 0, ev |-> <<>>,
     esc |-> <<>>, iev |-> <<>>, refused |-> {}, found |-> FALSE, retry |-> "none"]

\* the outcome of one hook invocation: the key it used, its argument (payload
\* size, or the child id of a fork), the value returned, the records it
\* submitted, the maps that refused its insert, whether the lookup of the
\* identity found an entry, and whether a send retried a resolved Class B attempt
Call(hook, pid, tid, arg, ret, ev, esc, iev, refused, found, retry) ==
    [hook |-> hook, pid |-> pid, tid |-> tid, arg |-> arg, ret |-> ret, ev |-> ev,
     esc |-> esc, iev |-> iev, refused |-> refused, found |-> found, retry |-> retry]

Init ==
    /\ verdict_cache = [p \in Pids |-> NULL]
    /\ trust_cache = [p \in Pids |-> NULL]
    /\ identity_cache = [p \in Pids |-> NULL]
    /\ entitlement_cache = [p \in Pids |-> NULL]
    /\ pid_identity_map = [p \in Pids |-> NULL]
    /\ identity_stats = 0
    /\ events = 0
    /\ escrow_events = 0
    /\ identity_events = 0
    /\ last = NoCall
    /\ seeded = [p \in Pids |-> FALSE]
    /\ pend = [p \in Pids |-> NULL]
    /\ progress = [handle_exit |-> 0, capture |-> 0]

interceptor_maps == <<verdict_cache, trust_cache, identity_cache, entitlement_cache>>
interceptor_vars == <<interceptor_maps, events, escrow_events, seeded, pend>>
identity_vars == <<pid_identity_map, identity_stats, identity_events>>

\* ------------------------------------------------------- interceptor hooks
\* a send that took the Class B branch of ocx_enforce_send
ClassBAttempt(task, size) ==
    /\ ~ (verdict_cache[task.tgid] # NULL
          /\ verdict_cache[task.tgid][1] \in {ACTION_BLOCK, ACTION_HOLD})
    /\ is_class_b(trust_of(trust_cache[task.tgid]), size)

\* lsm/socket_sendmsg
Send(task, size) ==
    LET pid == task.tgid
        out == ocx_enforce_send(task, size, events < EventsCap,
                                escrow_events < EscrowCap)
        retry == IF pend[pid] # NULL /\ pend[pid][1].size = size
                    /\ pend[pid][1].stage # "pending"
                 THEN pend[pid][1].stage ELSE "none"
    IN  /\ events' = events + Len(out.ev)
        /\ escrow_events' = escrow_events + Len(out.esc)
        /\ last' = Call("send", pid, task.tid, size, out.ret, out.ev, out.esc,
                        <<>>, {}, FALSE, retry)
        /\ pend' = [pend EXCEPT ![pid] =
                      IF ClassBAttempt(task, size)
                      THEN <<[size |-> size, stage |-> "pending"]>> ELSE NULL]
        /\ UNCHANGED <<progress, interceptor_maps, seeded, identity_vars>>

\* mutant: a connect under Hold resolves the hold to Allow
Connect_resolves_hold(task) ==
    /\ verdict_cache' = IF verdict_cache[task.tgid] = <<ACTION_HOLD>>
                        THEN [verdict_cache EXCEPT ![task.tgid] = <<ACTION_ALLOW>>]
                        ELSE verdict_cache
    /\ last' = Call("connect", task.tgid, task.tid, 0, ocx_enforce_connect(task),
                    <<>>, <<>>, <<>>, {}, FALSE, "none")
    /\ UNCHANGED <<progress, trust_cache, identity_cache, entitlement_cache, events,
                   escrow_events, seeded, pend, identity_vars>>

\* lsm/socket_connect
Connect(task) ==
    /\ last' = Call("connect", task.tgid, task.tid, 0, ocx_enforce_connect(task),
                    <<>>, <<>>, <<>>, {}, FALSE, "none")
    /\ UNCHANGED <<progress, interceptor_vars, identity_vars>>

\* the three map writes of capture_binary_hash
capture_identity(pid, full) ==
    bpf_map_update_elem(identity_cache, pid,
        [binary_hash |-> binary_hash_of(pid), tenant_id |-> 0], full)
\* mutant: a captured process seeded with Allow
capture_verdict_allow(pid, full) ==
    bpf_map_update_elem(verdict_cache, pid, ACTION_ALLOW, full)
capture_verdict(pid, full) ==
    bpf_map_update_elem(verdict_cache, pid, ACTION_HOLD, full)
capture_trust(pid, full) ==
    bpf_map_update_elem(trust_cache, pid, DEFAULT_TRUST, full)

\* kprobe/do_execve: capture_binary_hash
Capture(task, full_i, full_v, full_t) ==
    LET pid == task.tgid
        refused == {m \in {"identity", "verdict", "trust"} :
                      \/ m = "identity" /\ full_i /\ identity_cache[pid] = NULL
                      \/ m = "verdict" /\ full_v /\ verdict_cache[pid] = NULL
                      \/ m = "trust" /\ full_t /\ trust_cache[pid] = NULL}
    IN  /\ identity_cache' = capture_identity(pid, full_i)
        /\ verdict_cache' = capture_verdict(pid, full_v)
        /\ trust_cache' = capture_trust(pid, full_t)
        /\ last' = Call("capture", pid, task.tid, 0, 0, <<>>, <<>>, <<>>, refused,
                        identity_cache[pid] # NULL, "none")
        /\ seeded' = [seeded EXCEPT ![pid] = verdict_cache'[pid] = <<ACTION_HOLD>>]
        /\ pend' = [pend EXCEPT ![pid] = NULL]
        /\ UNCHANGED <<progress, entitlement_cache, events, escrow_events, identity_vars>>

\* tp/sched/sched_process_exit: handle_exit; ctx->pid is the id of the
\* exiting task
HandleExit(task) ==
    LET pid == task.tid
    IN  /\ verdict_cache' = bpf_map_delete_elem(verdict_cache, pid)
        /\ identity_cache' = bpf_map_delete_elem(identity_cache, pid)
        /\ trust_cache' = bpf_map_delete_elem(trust_cache, pid)
        /\ last' = Call("handle_exit", pid, task.tid, 0, 0, <<>>, <<>>, <<>>, {},
                        FALSE, "none")
        /\ seeded' = [seeded EXCEPT ![pid] = FALSE]
        /\ pend' = [pend EXCEPT ![pid] = NULL]
        /\ UNCHANGED <<progress, entitlement_cache, events, escrow_events, identity_vars>>

\* --------------------------------------------------- identity mapper hooks
\* inc_stat(index): the slot looked up is key 0 whatever the index
inc_stat(stats, index) == (stats + 1) % StatWrap

\* bpf_perf_event_output: the record is appended when the buffer has room
perf_event_output(record) ==
    IF identity_events < IdentityEventsCap THEN <<record>> ELSE <<>>

\* mutant: the copy keeps the parent's own parent pointer
child_identity_plain_copy(parent_id, parent_pid) == parent_id

\* struct identity_t child_id = *parent_id; child_id.parent_pid = parent_pid;
child_identity(parent_id, parent_pid) == [parent_id EXCEPT !.parent_pid = parent_pid]

\* mutant: trace_fork reports and counts the fork without testing the lookup
TraceFork_no_parent_check(parent, child, full) ==
    LET parent_pid == parent.tid
        child_pid == child.tid
        parent_id == pid_identity_map[parent_pid]
        iev == perf_event_output(
                  identity_event(child_pid, parent_pid, EVENT_FORK,
                                 IF parent_id = NULL THEN "" ELSE parent_id[1].agent_id))
    IN  /\ pid_identity_map' =
              IF parent_id = NULL THEN pid_identity_map
              ELSE bpf_map_update_elem(pid_identity_map, child_pid,
                      child_identity(parent_id[1], parent_pid), full)
        /\ identity_events' = identity_events + Len(iev)
        /\ identity_stats' = inc_stat(identity_stats, 0)
        /\ last' = Call("trace_fork", parent_pid, parent.tid, child_pid, 0,
                        <<>>, <<>>, iev,
                        IF full /\ parent_id # NULL /\ pid_identity_map[child_pid] = NULL
                        THEN {"pid_identity"} ELSE {},
                        parent_id # NULL, "none")
        /\ UNCHANGED <<progress, interceptor_vars>>

\* mutant: trace_fork stores the copy under the parent's key
TraceFork_stores_at_parent(parent, child, full) ==
    LET parent_pid == parent.tid
        child_pid == child.tid
        parent_id == pid_identity_map[parent_pid]
    IN  IF parent_id = NULL
        THEN /\ last' = Call("trace_fork", parent_pid, parent.tid, child_pid, 0,
                             <<>>, <<>>, <<>>, {}, FALSE, "none")
             /\ UNCHANGED <<progress, interceptor_vars, identity_vars>>
        ELSE LET iev == perf_event_output(
                            identity_event(child_pid, parent_pid, EVENT_FORK,
                                           parent_id[1].agent_id))
             IN  /\ pid_identity_map' =
                        bpf_map_update_elem(pid_identity_map, parent_pid,
                            child_identity(parent_id[1], parent_pid), full)
                 /\ identity_events' = identity_events + Len(iev)
                 /\ identity_stats' = inc_stat(identity_stats, 0)
                 /\ last' = Call("trace_fork", parent_pid, parent.tid, child_pid, 0,
                                 <<>>, <<>>, iev, {}, TRUE, "none")
                 /\ UNCHANGED <<progress, interceptor_vars>>

\* tp/sched/sched_process_fork: trace_fork; the tracepoint carries the ids
\* of the forking task and of the new task
TraceFork(parent, child, full) ==
    LET parent_pid == parent.tid
        child_pid == child.tid
        parent_id == pid_identity_map[parent_pid]
    IN  IF parent_id = NULL
        THEN /\ last' = Call("trace_fork", parent_pid, parent.tid, child_pid, 0,
                             <<>>, <<>>, <<>>, {}, FALSE, "none")
             /\ UNCHANGED <<progress, interceptor_vars, identity_vars>>
        ELSE LET iev == perf_event_output(
                            identity_event(child_pid, parent_pid, EVENT_FORK,
                                           parent_id[1].agent_id))
             IN  /\ pid_identity_map' =
                        bpf_map_update_elem(pid_identity_map, child_pid,
                            child_identity(parent_id[1], parent_pid), full)
                 /\ identity_events' = identity_events + Len(iev)
                 /\ identity_stats' = inc_stat(identity_stats, 0)
                 /\ last' = Call("trace_fork", parent_pid, parent.tid, child_pid, 0,
                                 <<>>, <<>>, iev,
                                 IF full /\ pid_identity_map[child_pid] = NULL
                                 THEN {"pid_identity"} ELSE {},
                                 TRUE, "none")
                 /\ UNCHANGED <<progress, interceptor_vars>>

\* tp/sched/sched_process_exec: trace_exec
TraceExec(task) ==
    LET pid == task.tgid
        id == pid_identity_map[pid]
    IN  IF id = NULL
        THEN /\ last' = Call("trace_exec", pid, task.tid, 0, 0, <<>>, <<>>, <<>>,
                             {}, FALSE, "none")
             /\ UNCHANGED <<progress, interceptor_vars, identity_vars>>
        ELSE LET iev == perf_event_output(
                            identity_event(pid, id[1].parent_pid, EVENT_EXEC,
                                           id[1].agent_id))
             IN  /\ identity_events' = identity_events + Len(iev)
                 /\ identity_stats' = inc_stat(identity_stats, 1)
                 /\ last' = Call("trace_exec", pid, task.tid, 0, 0, <<>>, <<>>, iev,
                                 {}, TRUE, "none")
                 /\ UNCHANGED <<progress, interceptor_vars, pid_identity_map>>

\* mutant: trace_exit reports and counts the exit without testing the lookup
TraceExit_no_null_check(task) ==
    LET pid == task.tgid
        id == pid_identity_map[pid]
        iev == perf_event_output(
                  identity_event(pid, IF id = NULL THEN 0 ELSE id[1].parent_pid,
                                 EVENT_EXIT,
                                 IF id = NULL THEN "" ELSE id[1].agent_id))
    IN  /\ pid_identity_map' = bpf_map_delete_elem(pid_identity_map, pid)
        /\ identity_events' = identity_events + Len(iev)
        /\ identity_stats' = inc_stat(identity_stats, 2)
        /\ last' = Call("trace_exit", pid, task.tid, 0, 0, <<>>, <<>>, iev,
                        {}, id # NULL, "none")
        /\ UNCHANGED <<progress, interceptor_vars>>

\* tp/sched/sched_process_exit: trace_exit
TraceExit(task) ==
    LET pid == task.tgid
        id == pid_identity_map[pid]
    IN  IF id = NULL
        THEN /\ last' = Call("trace_exit", pid, task.tid, 0, 0, <<>>, <<>>, <<>>,
                             {}, FALSE, "none")
             /\ UNCHANGED <<progress, interceptor_vars, identity_vars>>
        ELSE LET iev == perf_event_output(
                            identity_event(pid, id[1].parent_pid, EVENT_EXIT,
                                           id[1].agent_id))
             IN  /\ pid_identity_map' = bpf_map_delete_elem(pid_identity_map, pid)
                 /\ identity_events' = identity_events + Len(iev)
                 /\ identity_stats' = inc_stat(identity_stats, 2)
                 /\ last' = Call("trace_exit", pid, task.tid, 0, 0, <<>>, <<>>, iev,
                                 {}, TRUE, "none")
                 /\ UNCHANGED <<progress, interceptor_vars>>

\* kprobe/tcp_connect: kprobe_tcp_connect
TcpConnect(task) ==
    LET pid == task.tgid
        id == pid_identity_map[pid]
    IN  IF id = NULL
        THEN /\ last' = Call("tcp_connect", pid, task.tid, 0, 0, <<>>, <<>>, <<>>,
                             {}, FALSE, "none")
             /\ UNCHANGED <<progress, interceptor_vars, identity_vars>>
        ELSE LET iev == perf_event_output(
                            identity_event(pid, id[1].parent_pid, EVENT_LOOKUP,
                                           id[1].agent_id))
             IN  /\ identity_events' = identity_events + Len(iev)
                 /\ last' = Call("tcp_connect", pid, task.tid, 0, 0, <<>>, <<>>, iev,
                                 {}, TRUE, "none")
                 /\ UNCHANGED <<progress, interceptor_vars, pid_identity_map, identity_stats>>

\* ------------------------------------------------ the userspace control plane
\* a verdict written into verdict_cache; it resolves a pending Class B attempt
SetVerdict(pid, action) ==
    /\ verdict_cache' = [verdict_cache EXCEPT ![pid] = <<action>>]
    /\ seeded' = [seeded EXCEPT ![pid] = FALSE]
    /\ pend' = [pend EXCEPT ![pid] =
                  IF pend[pid] # NULL /\ pend[pid][1].stage = "pending"
                     /\ action \in {ACTION_ALLOW, ACTION_BLOCK}
                  THEN <<[size |-> pend[pid][1].size,
                          stage |-> IF action = ACTION_ALLOW THEN "allow" ELSE "block"]>>
                  ELSE NULL]
    /\ last' = NoCall
    /\ UNCHANGED <<progress, trust_cache, identity_cache, entitlement_cache, events,
                   escrow_events, identity_vars>>

\* a trust score written into trust_cache
SetTrust(pid, trust) ==
    /\ trust_cache' = [trust_cache EXCEPT ![pid] = <<trust>>]
    /\ pend' = [pend EXCEPT ![pid] = NULL]
    /\ last' = NoCall
    /\ UNCHANGED <<progress, verdict_cache, identity_cache, entitlement_cache, events,
                   escrow_events, seeded, identity_vars>>

\* an entitlement bitmask written into entitlement_cache
SetEntitlement(pid, mask) ==
    /\ entitlement_cache' = [entitlement_cache EXCEPT ![pid] = <<mask>>]
    /\ pend' = [pend EXCEPT ![pid] = NULL]
    /\ last' = NoCall
    /\ UNCHANGED <<progress, verdict_cache, trust_cache, identity_cache, events,
                   escrow_events, seeded, identity_vars>>

\* the tenant id of a captured identity filled in ("Tenant ID will be updated
\* by Userspace later")
SetTenant(pid, tenant) ==
    /\ identity_cache[pid] # NULL
    /\ identity_cache' = [identity_cache EXCEPT ![pid] =
                            <<[identity_cache[pid][1] EXCEPT !.tenant_id = tenant]>>]
    /\ pend' = [pend EXCEPT ![pid] = NULL]
    /\ last' = NoCall
    /\ UNCHANGED <<progress, verdict_cache, trust_cache, entitlement_cache, events,
                   escrow_events, seeded, identity_vars>>

\* an agent registered in pid_identity_map (no hook creates a first identity)
RegisterIdentity(pid, agent) ==
    /\ pid_identity_map' = [pid_identity_map EXCEPT ![pid] =
          <<[agent_id |-> agent, trust_level |-> 5000,
             spiffe_svid_hash |-> pid, registered_at |-> 0, parent_pid |-> 0]>>]
    /\ last' = NoCall
    /\ UNCHANGED <<progress, interceptor_vars, identity_stats, identity_events>>

\* the consumers of the three channels
ConsumeEvents ==
    /\ events > 0
    /\ events' = events - 1
    /\ last' = NoCall
    /\ UNCHANGED <<progress, interceptor_maps, escrow_events, seeded, pend, identity_vars>>

ConsumeEscrow ==
    /\ escrow_events > 0
    /\ escrow_events' = escrow_events - 1
    /\ last' = NoCall
    /\ UNCHANGED <<progress, interceptor_maps, events, seeded, pend, identity_vars>>

ConsumeIdentityEvents ==
    /\ identity_events > 0
    /\ identity_events' = identity_events - 1
    /\ last' = NoCall
    /\ UNCHANGED <<progress, interceptor_vars, pid_identity_map, identity_stats>>

\* --------------------------------------- hooks run statement by statement
\* the leader of process 1 exits while another thread of the process calls
\* execve: both programs use key 1
ExitingTask == [tgid |-> 1, tid |-> 1]
ExecingTask == [tgid |-> 1, tid |-> 3]

\* one map operation of a program running concurrently with others; only the
\* touched map changes
MapStep(program, from) ==
    /\ progress[program] = from
    /\ progress' = [progress EXCEPT ![program] = (from + 1) % 4]
    /\ last' = NoCall
    /\ UNCHANGED <<entitlement_cache, events, escrow_events, pend, identity_vars>>

\* handle_exit, interceptor.bpf.c:327
handle_exit_delete_verdict ==
    /\ MapStep("handle_exit", 0)
    /\ verdict_cache' = bpf_map_delete_elem(verdict_cache, ExitingTask.tid)
    /\ seeded' = [seeded EXCEPT ![ExitingTask.tid] = FALSE]
    /\ UNCHANGED <<identity_cache, trust_cache>>

\* handle_exit, interceptor.bpf.c:328
handle_exit_delete_identity ==
    /\ MapStep("handle_exit", 1)
    /\ identity_cache' = bpf_map_delete_elem(identity_cache, ExitingTask.tid)
    /\ UNCHANGED <<verdict_cache, trust_cache, seeded>>

\* handle_exit, interceptor.bpf.c:329
handle_exit_delete_trust ==
    /\ MapStep("handle_exit", 2)
    /\ trust_cache' = bpf_map_delete_elem(trust_cache, ExitingTask.tid)
    /\ UNCHANGED <<verdict_cache, identity_cache, seeded>>

\* handle_exit, interceptor.bpf.c:331-332
handle_exit_return ==
    /\ MapStep("handle_exit", 3)
    /\ UNCHANGED <<verdict_cache, identity_cache, trust_cache, seeded>>

\* capture_binary_hash, interceptor.bpf.c:354
capture_store_identity(full) ==
    /\ MapStep("capture", 0)
    /\ identity_cache' = capture_identity(ExecingTask.tgid, full)
    /\ UNCHANGED <<verdict_cache, trust_cache, seeded>>

\* capture_binary_hash, interceptor.bpf.c:358
capture_store_verdict(full) ==
    /\ MapStep("capture", 1)
    /\ verdict_cache' = capture_verdict(ExecingTask.tgid, full)
    /\ seeded' = [seeded EXCEPT ![ExecingTask.tgid] =
                     verdict_cache'[ExecingTask.tgid] = <<ACTION_HOLD>>]
    /\ UNCHANGED <<identity_cache, trust_cache>>

\* capture_binary_hash, interceptor.bpf.c:362
capture_store_trust(full) ==
    /\ MapStep("capture", 2)
    /\ trust_cache' = capture_trust(ExecingTask.tgid, full)
    /\ UNCHANGED <<verdict_cache, identity_cache, seeded>>

\* capture_binary_hash, interceptor.bpf.c:364-366
capture_return ==
    /\ MapStep("capture", 3)
    /\ UNCHANGED <<verdict_cache, identity_cache, trust_cache, seeded>>

\* ------------------------------------------------------------ specifications
\* a new thread is forked by a task of its own process, a new process by a
\* task of another one
ForkPairs ==
    {pc \in Tasks \X Tasks :
        /\ pc[1] # pc[2]
        /\ (pc[2].tid = pc[2].tgid) = (pc[1].tgid # pc[2].tgid)}

NextEnforce ==
    \/ \E t \in EnforceTasks, size \in Sizes : Send(t, size)
    \/ \E t \in EnforceTasks : Connect(t)
    \/ \E t \in EnforceTasks, fi, fv, ft \in BOOLEAN : Capture(t, fi, fv, ft)
    \/ \E t \in EnforceTasks : HandleExit(t)
    \/ \E p \in EnforcePids, a \in Verdicts : SetVerdict(p, a)
    \/ \E p \in EnforcePids, tr \in TrustVals : SetTrust(p, tr)
    \/ \E p \in EnforcePids, m \in Entitlements : SetEntitlement(p, m)
    \/ \E p \in EnforcePids, tn \in Tenants : SetTenant(p, tn)
    \/ ConsumeEvents
    \/ ConsumeEscrow

NextIdentity ==
    \/ \E pc \in ForkPairs, full \in BOOLEAN : TraceFork(pc[1], pc[2], full)
    \/ \E t \in Tasks : TraceExec(t)
    \/ \E t \in Tasks : TraceExit(t)
    \/ \E t \in Tasks : TcpConnect(t)
    \/ \E t \in Tasks, a \in AgentIds : RegisterIdentity(t.tgid, a)
    \/ ConsumeIdentityEvents

\* the lifecycle hooks of both files (fork, exec, exit) with the control-plane
\* writes they interact with
NextLifecycle ==
    \/ \E t \in EnforceTasks, fi, fv, ft \in BOOLEAN : Capture(t, fi, fv, ft)
    \/ \E t \in EnforceTasks : HandleExit(t)
    \/ \E p \in EnforcePids, a \in Verdicts : SetVerdict(p, a)
    \/ \E p \in EnforcePids, tr \in LifecycleTrust : SetTrust(p, tr)
    \/ \E p \in EnforcePids, m \in Entitlements : SetEntitlement(p, m)
    \/ \E pc \in ForkPairs, full \in BOOLEAN : TraceFork(pc[1], pc[2], full)
    \/ \E t \in EnforceTasks : TraceExec(t)
    \/ \E t \in Tasks : TraceExit(t)
    \/ \E p \in EnforcePids, a \in LifecycleAgents : RegisterIdentity(p, a)
    \/ ConsumeIdentityEvents

\* the exit cleanup of process 1 interleaved, map operation by map operation,
\* with an exec capture, sends and connects for the same id
NextExitRace ==
    \/ handle_exit_delete_verdict
    \/ handle_exit_delete_identity
    \/ handle_exit_delete_trust
    \/ handle_exit_return
    \/ \E full \in BOOLEAN : capture_store_identity(full)
    \/ \E full \in BOOLEAN : capture_store_verdict(full)
    \/ \E full \in BOOLEAN : capture_store_trust(full)
    \/ capture_return
    \/ \E t \in EnforceTasks, size \in Sizes : Send(t, size)
    \/ \E t \in EnforceTasks : Connect(t)
    \/ \E p \in EnforcePids, a \in Verdicts : SetVerdict(p, a)

Next == NextEnforce \/ NextIdentity

Spec == Init /\ [][Next]_vars
SpecEnforce == Init /\ [][NextEnforce]_vars
SpecIdentity == Init /\ [][NextIdentity]_vars
SpecLifecycle == Init /\ [][NextLifecycle]_vars
SpecExitRace == Init /\ [][NextExitRace]_vars


\* ------------------------------------------------------------------ claims
\* The enforcement hooks write no map, so in the state right after a send or
\* a connect the maps are the ones the hook read.
EnforcementCall == last.hook \in {"send", "connect"}
Trust(p) == IF trust_cache[p] # NULL THEN trust_cache[p][1] ELSE 50
NoVerdictOrAllow(p) == verdict_cache[p] = NULL \/ verdict_cache[p] = <<0>>

\* C1: a send or connect of a process whose verdict entry is Block returns
\* -EPERM, whatever its trust, entitlements, identity and payload size.
C1_BlockDeniesHard ==
    (EnforcementCall /\ verdict_cache[last.pid] = <<1>>) => last.ret = 0 - EPERM

\* C1 witness: a large send of a fully trusted, entitled, identified process
\* under Block was denied with -EPERM.
C1_Witness ==
    /\ last.hook = "send" /\ last.arg > 1024 /\ last.ret = 0 - EPERM
    /\ verdict_cache[last.pid] = <<1>>
    /\ trust_cache[last.pid] = <<65>>
    /\ entitlement_cache[last.pid] # NULL
    /\ identity_cache[last.pid] # NULL

\* C2 (as claimed): a send or connect of a process whose verdict entry is
\* Hold returns -EAGAIN: never -EPERM, never success.
C2_HoldDeniesTransiently ==
    (EnforcementCall /\ verdict_cache[last.pid] = <<2>>) => last.ret = 0 - EAGAIN

\* C3 (as claimed): with trust below 30 and the verdict absent or Allow, a
\* send or connect returns -EPERM for every payload size.
C3_TrustFloorAnySize ==
    (EnforcementCall /\ Trust(last.pid) < 30 /\ NoVerdictOrAllow(last.pid))
        => last.ret = 0 - EPERM

\* C3 (amended): with trust below 30 and the verdict absent or Allow, every
\* connect and every send of at most 1024 bytes returns -EPERM, an explicit
\* Allow included; a send of more than 1024 bytes is Class B and returns
\* -EAGAIN.
C3_TrustFloorUpTo1024 ==
    (EnforcementCall /\ Trust(last.pid) < 30 /\ NoVerdictOrAllow(last.pid))
        => IF last.hook = "send" /\ last.arg > 1024
           THEN last.ret = 0 - EAGAIN
           ELSE last.ret = 0 - EPERM

\* C3 witness: a connect under an explicit Allow with trust 29 was denied
\* with -EPERM.
C3_Witness ==
    /\ last.hook = "connect" /\ last.ret = 0 - EPERM
    /\ verdict_cache[last.pid] = <<0>>
    /\ trust_cache[last.pid] = <<29>>

\* C4 (as claimed): a send with the verdict absent or Allow, trust below 65
\* and more than 1024 bytes returns -EAGAIN and emits one escrow record whose
\* verdict tag is pending.
C4_ClassBEmitsEscrow ==
    (last.hook = "send" /\ NoVerdictOrAllow(last.pid) /\ Trust(last.pid) < 65
     /\ last.arg > 1024)
        => /\ last.ret = 0 - EAGAIN
           /\ Len(last.esc) = 1
           /\ last.esc[1].verdict = 0

\* C4 (amended): such a send returns -EAGAIN and submits nothing to the
\* enforcement channel; it emits one escrow record with verdict tag pending,
\* class B, its pid, trust and size, unless the escrow channel is full, in
\* which case the record is dropped.
C4_ClassBHoldsAndEscrowsIfRoom ==
    (last.hook = "send" /\ NoVerdictOrAllow(last.pid) /\ Trust(last.pid) < 65
     /\ last.arg > 1024)
        => /\ last.ret = 0 - EAGAIN
           /\ last.ev = <<>>
           /\ IF last.esc = <<>>
              THEN escrow_events = EscrowCap
              ELSE /\ Len(last.esc) = 1
                   /\ last.esc[1].verdict = 0
                   /\ last.esc[1].action_class = 1
                   /\ last.esc[1].pid = last.pid
                   /\ last.esc[1].trust_level = Trust(last.pid)
                   /\ last.esc[1].data_size = last.arg

\* C4 witness: trust 60, 2048 bytes, no verdict: held, escrow record emitted.
C4_Witness ==
    /\ last.hook = "send" /\ last.arg = 2048 /\ last.ret = 0 - EAGAIN
    /\ verdict_cache[last.pid] = NULL
    /\ trust_cache[last.pid] = <<60>>
    /\ Len(last.esc) = 1 /\ last.esc[1].verdict = 0

\* C5 (as claimed): the retry of a Class B send, after the control plane
\* wrote Allow and nothing else, returns success; after it wrote Block, the
\* retry returns -EPERM.
C5_VerdictResolvesClassB ==
    /\ (last.hook = "send" /\ last.retry = "allow") => last.ret = 0
    /\ (last.hook = "send" /\ last.retry = "block") => last.ret = 0 - EPERM

\* C6: a send or connect with the verdict absent or Allow, trust of at least
\* 30 and not Class B (a connect, or a send that is not both below trust 65
\* and above 1024 bytes) returns 0.
C6_AdmitsAboveFloor ==
    (EnforcementCall /\ NoVerdictOrAllow(last.pid) /\ Trust(last.pid) >= 30
     /\ ~ (last.hook = "send" /\ Trust(last.pid) < 65 /\ last.arg > 1024))
        => last.ret = 0

\* C6 witness: a connect with trust exactly 30 and no verdict was admitted.
C6_Witness ==
    /\ last.hook = "connect" /\ last.ret = 0
    /\ verdict_cache[last.pid] = NULL
    /\ trust_cache[last.pid] = <<30>>

\* C7: after the capture of an id that had no identity, when no map refused
\* the insert, identity(q) has tenant 0, trust(q) is 50 and verdict(q) is
\* Hold.
C7_FirstCaptureSeeds ==
    (last.hook = "capture" /\ ~ last.found /\ last.refused = {})
        => /\ identity_cache[last.pid] # NULL
           /\ identity_cache[last.pid][1].tenant_id = 0
           /\ trust_cache[last.pid] = <<50>>
           /\ verdict_cache[last.pid] = <<2>>

\* C7 witness: a first capture went through with room in all three maps.
C7_Witness ==
    /\ last.hook = "capture" /\ ~ last.found /\ last.refused = {}
    /\ identity_cache[last.pid] # NULL
    /\ verdict_cache[last.pid] = <<2>>

\* C8 (as claimed): while a process holds the verdict seeded at its capture
\* (no external verdict write yet), none of its sends or connects returns 0.
C8_NoAdmitBeforeExternalVerdict ==
    (EnforcementCall /\ seeded[last.pid]) => last.ret # 0

\* C9 (as claimed): after fork(P, C) with an identity for P, identity(C) is
\* identity(P) with the parent id set to P, and exactly one fork event with
\* C, P and the agent identifier was emitted.
C9_ForkInherits ==
    (last.hook = "trace_fork" /\ last.found)
        => /\ pid_identity_map[last.pid] # NULL
           /\ pid_identity_map[last.arg] =
                 <<[pid_identity_map[last.pid][1] EXCEPT !.parent_pid = last.pid]>>
           /\ last.iev = <<identity_event(last.arg, last.pid, 0,
                                          pid_identity_map[last.pid][1].agent_id)>>

\* C9 (amended): after fork(P, C) with an identity for P, unless the identity
\* map is full and refuses a new key C, identity(C) is identity(P) with the
\* parent id set to P; and exactly one fork event with C, P and the agent
\* identifier was emitted, unless the event buffer is full, in which case
\* none was.
C9_ForkInheritsIfRoom ==
    (last.hook = "trace_fork" /\ last.found)
        => /\ pid_identity_map[last.pid] # NULL
           /\ last.refused = {} =>
                pid_identity_map[last.arg] =
                   <<[pid_identity_map[last.pid][1] EXCEPT !.parent_pid = last.pid]>>
           /\ IF last.iev = <<>>
              THEN identity_events = IdentityEventsCap
              ELSE last.iev = <<identity_event(last.arg, last.pid, 0,
                                   pid_identity_map[last.pid][1].agent_id)>>

\* C9 witness: a fork by a parent whose own parent pointer differs from its
\* id gave the child the identity and emitted the event.
C9_Witness ==
    /\ last.hook = "trace_fork" /\ last.found /\ last.refused = {}
    /\ Len(last.iev) = 1
    /\ pid_identity_map[last.arg] # NULL
    /\ pid_identity_map[last.arg][1].parent_pid = last.pid
    /\ pid_identity_map[last.pid][1].parent_pid # last.pid

\* C10 (as claimed): an exec of a process that has an identity record leaves
\* the record as it was, in both identity maps.
C10_ExecKeepsIdentity ==
    [][\A p \in Pids :
          /\ (last'.hook = "capture" /\ last'.pid = p /\ identity_cache[p] # NULL)
                => identity_cache'[p] = identity_cache[p]
          /\ (last'.hook = "trace_exec" /\ last'.pid = p /\ pid_identity_map[p] # NULL)
                => pid_identity_map'[p] = pid_identity_map[p]]_vars

\* C11 (as claimed): when a process p that is tracked (it has an identity in
\* either identity map) exits, that is when trace_exit and then handle_exit
\* have run for its leader task, identity(p), verdict(p) and trust(p) are
\* absent and trace_exit emitted an exit event for p (granted that the event
\* buffer had room).
C11_ExitPurgesAndReports ==
    [][\A p \in Pids :
          (/\ last.hook = "trace_exit" /\ last.pid = p /\ last.tid = p
           /\ last'.hook = "handle_exit" /\ last'.tid = p
           /\ (last.found \/ identity_cache[p] # NULL))
          => /\ identity_cache'[p] = NULL
             /\ pid_identity_map'[p] = NULL
             /\ verdict_cache'[p] = NULL
             /\ trust_cache'[p] = NULL
             /\ IF last.iev = <<>>
                THEN identity_events = IdentityEventsCap
                ELSE /\ Len(last.iev) = 1
                     /\ last.iev[1].event_type = 2
                     /\ last.iev[1].pid = p]_vars

\* the id has no entry in any per-process map
NoEntries(p) ==
    /\ verdict_cache[p] = NULL
    /\ trust_cache[p] = NULL
    /\ identity_cache[p] = NULL
    /\ entitlement_cache[p] = NULL
    /\ pid_identity_map[p] = NULL

\* C12: an exit hook run for an id that has no entry in any map returns 0,
\* changes no map and no counter, and emits no event.
C12_ExitIdempotent ==
    [][(last'.hook \in {"handle_exit", "trace_exit"} /\ NoEntries(last'.pid))
          => /\ UNCHANGED <<interceptor_maps, pid_identity_map, identity_stats,
                            events, escrow_events, identity_events>>
             /\ last'.ret = 0
             /\ last'.ev = <<>> /\ last'.esc = <<>> /\ last'.iev = <<>>]_vars

\* C12 witness: after earlier lifecycle events were counted, trace_exit ran
\* for an id that has no entry anywhere and found nothing.
C12_Witness ==
    /\ last.hook = "trace_exit" /\ ~ last.found /\ last.iev = <<>>
    /\ NoEntries(last.pid)
    /\ identity_stats > 0

\* C13 (as claimed): a core hook changes a verdict or trust entry only by
\* seeding an absent one (Hold, 50) at capture or by deleting it at exit; it
\* never replaces an existing entry by another value.
C13_CoreOnlySeedsAndDeletes ==
    [][\A p \in Pids :
          last'.hook # "none"
          => /\ \/ verdict_cache'[p] = verdict_cache[p]
                \/ /\ verdict_cache[p] = NULL /\ verdict_cache'[p] = <<2>>
                   /\ last'.hook = "capture"
                \/ verdict_cache'[p] = NULL /\ last'.hook = "handle_exit"
             /\ \/ trust_cache'[p] = trust_cache[p]
                \/ /\ trust_cache[p] = NULL /\ trust_cache'[p] = <<50>>
                   /\ last'.hook = "capture"
                \/ trust_cache'[p] = NULL /\ last'.hook = "handle_exit"]_vars

\* what ocx_enforce_send returns and submits for an id no map has an entry
\* for: no verdict, trust 50, tenant 0, hash 0, no entitlements
FreshRet(size) == IF size > 1024 THEN 0 - EAGAIN ELSE 0
FreshAudit(pid, tid, size) == socket_event(pid, tid, 0, U64Zero, 0, 50, size, 0)
FreshEscrow(pid, tid, size) == escrow_event(pid, tid, 0, U64Zero, 50, 0, size)

\* C14 (as claimed): a send by a process that reuses id p right after the
\* exit cleanup of p gets the decision, and any audit or escrow record the
\* contents, that a never-seen id gets; no entry of the previous owner is
\* left.
C14_PidReuseSeesNothingStale ==
    [][\A p \in Pids :
          (/\ last.hook = "handle_exit" /\ last.pid = p
           /\ last'.hook = "send" /\ last'.pid = p)
          => /\ last'.ret = FreshRet(last'.arg)
             /\ \A i \in 1..Len(last'.ev) :
                   last'.ev[i] = FreshAudit(p, last'.tid, last'.arg)
             /\ \A i \in 1..Len(last'.esc) :
                   last'.esc[i] = FreshEscrow(p, last'.tid, last'.arg)
             /\ entitlement_cache[p] = NULL]_vars

\* C15: the value a send returns is the value it returns with both ring
\* buffers free, whatever their fill level; a Class B send whose escrow
\* record is dropped still returns -EAGAIN.  (A connect reserves nothing.)
C15_PressureNeverAltersDecision ==
    /\ \A t \in EnforceTasks, size \in Sizes, es, cs \in BOOLEAN :
          ocx_enforce_send(t, size, es, cs).ret
             = ocx_enforce_send(t, size, TRUE, TRUE).ret
    /\ last.hook = "send" =>
          last.ret = ocx_enforce_send([tgid |-> last.pid, tid |-> last.tid],
                                      last.arg, TRUE, TRUE).ret
    /\ (last.hook = "send" /\ NoVerdictOrAllow(last.pid) /\ Trust(last.pid) < 65
        /\ last.arg > 1024 /\ last.esc = <<>>) => last.ret = 0 - EAGAIN

\* C15 witness: a Class B send found the escrow channel full: its record was
\* dropped and it was denied with -EAGAIN.
C15_Witness ==
    /\ last.hook = "send" /\ last.arg > 1024 /\ last.ret = 0 - EAGAIN
    /\ NoVerdictOrAllow(last.pid) /\ Trust(last.pid) < 65
    /\ last.esc = <<>> /\ escrow_events = EscrowCap

\* C16 (as claimed): a send or connect that returns 0 or -EPERM appends,
\* when the enforcement channel has room, exactly one audit event, whose
\* blocked flag is 1 iff the action was denied and whose action, trust and
\* size describe the decision.
C16_EveryDecisionAudited ==
    (EnforcementCall /\ last.ret \in {0, 0 - EPERM}
     /\ (last.ev # <<>> \/ events < EventsCap))
        => /\ Len(last.ev) = 1
           /\ last.ev[1].blocked = (IF last.ret = 0 THEN 0 ELSE 1)
           /\ last.ev[1].action = (IF last.ret = 0 THEN 0 ELSE 1)
           /\ last.ev[1].trust_level = Trust(last.pid)
           /\ last.hook = "send" => last.ev[1].data_size = last.arg

\* C17: a send that returns -EAGAIN appends nothing to the enforcement
\* channel; under Hold it appends nothing to the escrow channel either, and
\* leaves both fill levels as they were.
C17_TransientDenialsNotAudited ==
    [][(last'.hook = "send" /\ last'.ret = 0 - EAGAIN)
          => /\ last'.ev = <<>>
             /\ events' = events
             /\ verdict_cache[last'.pid] = <<2>> =>
                   (last'.esc = <<>> /\ escrow_events' = escrow_events)
             /\ verdict_cache[last'.pid] # <<2>> =>
                   escrow_events' = escrow_events + Len(last'.esc)]_vars

\* C17 witness: a send under Hold was denied with -EAGAIN while both channels
\* had room, and both are still empty.
C17_Witness ==
    /\ last.hook = "send" /\ last.ret = 0 - EAGAIN
    /\ verdict_cache[last.pid] = <<2>>
    /\ events = 0 /\ escrow_events = 0

\* C18: every Class B send made while the escrow channel has room appends
\* exactly one escrow record, with verdict tag pending, whether or not an
\* earlier attempt of the same process is still unresolved.
C18_EachClassBAttemptEscrowed ==
    [][(/\ last'.hook = "send" /\ last'.arg > 1024
        /\ NoVerdictOrAllow(last'.pid) /\ Trust(last'.pid) < 65
        /\ escrow_events < EscrowCap)
          => /\ escrow_events' = escrow_events + 1
             /\ Len(last'.esc) = 1
             /\ last'.esc[1].verdict = 0
             /\ last'.esc[1].pid = last'.pid
             /\ last'.esc[1].data_size = last'.arg]_vars

\* C18 witness: two records of the same process are queued on the escrow
\* channel, the second one just appended by a Class B attempt.
C18_Witness ==
    /\ last.hook = "send" /\ Len(last.esc) = 1 /\ last.esc[1].verdict = 0
    /\ escrow_events = 2

\* C19: a send or connect changes no map; and a Hold verdict stops being
\* Hold only in a step of the control plane or of handle_exit.
C19_EnforcementWritesNoMap ==
    [][/\ last'.hook \in {"send", "connect"} =>
             UNCHANGED <<interceptor_maps, pid_identity_map, identity_stats>>
       /\ \A p \in Pids :
             (verdict_cache[p] = <<2>> /\ verdict_cache'[p] # <<2>>)
                => last'.hook \in {"none", "handle_exit"}]_vars

\* C19 witness: a connect ran for a process under Hold and the Hold is still
\* there.
C19_Witness ==
    /\ last.hook = "connect"
    /\ verdict_cache[last.pid] = <<2>>

\* C20: trace_fork(P, C) leaves every per-process entry but the identity of C
\* as it was: no verdict, trust, entitlement or captured identity is created
\* or changed for C or P; and when P has no identity it changes nothing at
\* all and emits no event.
C20_ForkTouchesOnlyChildIdentity ==
    [][last'.hook = "trace_fork"
          => /\ UNCHANGED interceptor_maps
             /\ \A q \in Pids \ {last'.arg} :
                   pid_identity_map'[q] = pid_identity_map[q]
             /\ pid_identity_map[last'.pid] = NULL =>
                   /\ UNCHANGED <<pid_identity_map, identity_stats, identity_events>>
                   /\ last'.iev = <<>>]_vars

\* C20 witness: a parent with an Allow verdict and a trust entry forked; the
\* child has the identity and neither a verdict nor a trust entry.
C20_Witness ==
    /\ last.hook = "trace_fork" /\ last.found
    /\ verdict_cache[last.pid] = <<0>> /\ trust_cache[last.pid] # NULL
    /\ pid_identity_map[last.arg] # NULL
    /\ verdict_cache[last.arg] = NULL /\ trust_cache[last.arg] = NULL

\* C21 (as claimed): an exit hook run by task t uses the process id of t as
\* its key, and when t is a thread other than the leader of its process the
\* identity, verdict and trust entries of the process are left as they were.
C21_OnlyProcessExitRemoves ==
    [][\A t \in Tasks :
          (last'.hook \in {"handle_exit", "trace_exit"} /\ last'.tid = t.tid)
          => /\ last'.pid = t.tgid
             /\ t.tid # t.tgid =>
                   /\ identity_cache'[t.tgid] = identity_cache[t.tgid]
                   /\ pid_identity_map'[t.tgid] = pid_identity_map[t.tgid]
                   /\ verdict_cache'[t.tgid] = verdict_cache[t.tgid]
                   /\ trust_cache'[t.tgid] = trust_cache[t.tgid]]_vars

\* C22 (as claimed): whatever map operations of a concurrent exec capture,
\* send or connect for the same id are interleaved with the exit cleanup, at
\* the moment its third delete completes none of the identity, verdict and
\* trust maps holds an entry for the id.
C22_CleanupLeavesNoEntry ==
    [][(progress.handle_exit = 2 /\ progress'.handle_exit = 3)
          => /\ verdict_cache'[ExitingTask.tid] = NULL
             /\ identity_cache'[ExitingTask.tid] = NULL
             /\ trust_cache'[ExitingTask.tid] = NULL]_vars

C24_SeededEntryHasIdentity ==
    (progress.handle_exit = 0 /\ progress.capture = 0)
        => \A p \in Pids :
              (seeded[p] \/ trust_cache[p] # NULL) => identity_cache[p] # NULL

====
